---------------------------- MODULE Spec2Model ----------------------------
(***************************************************************************)
(* Model of the RAG chat pipeline of health_center:                        *)
(*   backend/app/services/rag_chat_service.py  (LightweightReranker,       *)
(*   RAGChatService), web_search_service.py (WebSearchService) and         *)
(*   conversation_memory_service.py (ConversationMemoryService).           *)
(*                                                                         *)
(* Strings are modelled by the features the code observes: a text is the   *)
(* sequence of its lines (split on a newline), each line carrying its      *)
(* length in characters, and the set of whitespace-separated words of the  *)
(* text, each word a sequence of characters.  Scores are fixed-point       *)
(* numbers in units of 1/ScoreUnit; weights are in tenths.                  *)
(***************************************************************************)
EXTENDS Integers, Sequences, FiniteSets, TLC

\* ----------------------------------------------------------------- bounds
MaxResults == 3
MaxSourcesBound == 4
MaxRequests == 2
MaxN == 2
\* the largest n_results of a web request
MaxWebN == 4
\* requests that may wait for the event loop at one time
MaxWaiting == 2
\* requests a thread has stored before the first request of a run
MaxPrior == 4

\* ------------------------------------------------------ program constants
DefaultMaxLength == 2000
DefaultMaxSources == 3
WebMaxSources == 3
ExcerptLength == 200
PreviewLines == 10
HistoryMessages == 6
RecencyHorizonDays == 60

ScoreUnit == 42 * RecencyHorizonDays

None == "None"
\* a local variable that is not bound yet
Unbound == [unbound |-> TRUE]

Min(a, b) == IF a <= b THEN a ELSE b
Max(a, b) == IF a >= b THEN a ELSE b

Range(f) == {f[x] : x \in DOMAIN f}

\* the element of a one-element set
Only(S) == CHOOSE x \in S : TRUE

RECURSIVE SumSeq(_)
SumSeq(s) == IF s = <<>> THEN 0 ELSE Head(s) + SumSeq(Tail(s))

\* python's  s[:n]
Take(s, n) == SubSeq(s, 1, IF n < 0 THEN Max(Len(s) + n, 0) ELSE Min(n, Len(s)))

\* ------------------------------------------------------------------ text
\* len(text): the lines' lengths plus one newline between two lines.
StrLen(lines) == SumSeq(lines) + (Len(lines) - 1)

Lower(c) == IF c = "A" THEN "a" ELSE IF c = "B" THEN "b" ELSE c
LowerWord(w) == [i \in DOMAIN w |-> Lower(w[i])]

\* str.lower().split() as a set of terms
Terms(words) == {LowerWord(w) : w \in words}

\* python's  s in t  on two words
IsSubstr(s, t) ==
    \E i \in 0..(Len(t) - Len(s)) : SubSeq(t, i + 1, i + Len(s)) = s

\* ------------------------------------------------------- indexed corpus
\* The chunks the vector index can return: text (lines, words) and the
\* metadata written by vectorize_file.  timestamp is the document's age in
\* days at the time of the request (negative: dated after now) and whether
\* the stored value parses at all.
Chunks ==
    [ c1 |-> [doc_id |-> "d1", source_filename |-> "doc1.md", chunk_index |-> 0,
              total_chunks |-> 3, timestamp |-> [parses |-> TRUE, age |-> 0],
              lines |-> <<900>>, words |-> {<<"A", "b">>, <<"c">>}],
      c2 |-> [doc_id |-> "d1", source_filename |-> "doc1.md", chunk_index |-> 2,
              total_chunks |-> 3, timestamp |-> [parses |-> TRUE, age |-> 30],
              lines |-> <<100, 0, 100, 100, 100, 100, 100, 100, 100, 100, 100, 489>>,
              words |-> {<<"a">>, <<"a", "b", "c">>}],
      c3 |-> [doc_id |-> "d2", source_filename |-> "doc2.md", chunk_index |-> 0,
              total_chunks |-> 1, timestamp |-> [parses |-> FALSE, age |-> 0],
              lines |-> <<2500>>, words |-> {<<"b">>}],
      c4 |-> [doc_id |-> "", source_filename |-> "x.md", chunk_index |-> 0,
              total_chunks |-> 1, timestamp |-> [parses |-> TRUE, age |-> 90],
              lines |-> <<1100>>, words |-> {<<"c">>}],
      c5 |-> [doc_id |-> "d2", source_filename |-> "doc2.md", chunk_index |-> 0,
              total_chunks |-> 1, timestamp |-> [parses |-> TRUE, age |-> -5],
              lines |-> <<0>>, words |-> {}] ]

ChunkIds == DOMAIN Chunks

Text(r) == Chunks[r.chunk].lines
TextLen(r) == StrLen(Text(r))
Metadata(r) == Chunks[r.chunk]

\* similarity of a search result, in tenths
Similarities == {3, 9}

Queries ==
    { [id |-> "q1", words |-> {<<"a", "b">>, <<"c">>}, len |-> 4],
      [id |-> "q2", words |-> {}, len |-> 1] }

\* ------------------------------------------------------------- reranker
SignalKeys ==
    {"similarity", "keyword_match", "recency", "chunk_position", "doc_frequency"}

\* LightweightReranker.__init__ : the weights, in tenths
DefaultWeights ==
    [similarity |-> 4, keyword_match |-> 3, recency |-> 1,
     chunk_position |-> 1, doc_frequency |-> 1]

calculate_keyword_score(query, words) ==
    LET query_terms == Terms(query.words)
        text_terms == Terms(words)
        exact_matches == Cardinality(query_terms \cap text_terms)
        partial_matches ==
            Cardinality({p \in query_terms \X text_terms :
                            IsSubstr(p[1], p[2]) \/ IsSubstr(p[2], p[1])})
    IN  IF query_terms = {} THEN 0
        ELSE Min(ScoreUnit,
                 ((2 * exact_matches + partial_matches) * ScoreUnit)
                     \div (2 * Cardinality(query_terms)))

calculate_recency_score(timestamp) ==
    IF ~timestamp.parses THEN ScoreUnit \div 2
    ELSE Max(0, ScoreUnit - (timestamp.age * ScoreUnit) \div RecencyHorizonDays)

calculate_chunk_position_score(chunk_index, total_chunks) ==
    IF total_chunks <= 1 THEN ScoreUnit
    ELSE ScoreUnit - (chunk_index * ScoreUnit) \div (2 * (total_chunks - 1))

\* doc_frequency of rerank: chunks per non-empty doc_id in the batch
DocFrequency(results) ==
    LET ids == {Metadata(results[i]).doc_id : i \in DOMAIN results} \ {""}
    IN  [d \in ids |->
            Cardinality({i \in DOMAIN results : Metadata(results[i]).doc_id = d})]

MaxOf(S) == CHOOSE m \in S : \A x \in S : x <= m

doc_freq_score(results, r) ==
    LET doc_frequency == DocFrequency(results)
        doc_id == Metadata(r).doc_id
        count == IF doc_id \in DOMAIN doc_frequency THEN doc_frequency[doc_id] ELSE 1
    IN  IF DOMAIN doc_frequency = {} THEN ScoreUnit \div 2
        ELSE (count * ScoreUnit) \div MaxOf(Range(doc_frequency))

\* the five sub-scores rerank computes for one result
Signals(query, results, r) ==
    [similarity |-> (r.similarity * ScoreUnit) \div 10,
     keyword_match |-> calculate_keyword_score(query, Metadata(r).words),
     recency |-> calculate_recency_score(Metadata(r).timestamp),
     chunk_position |->
         calculate_chunk_position_score(Metadata(r).chunk_index,
                                        Metadata(r).total_chunks),
     doc_frequency |-> doc_freq_score(results, r)]

\* mutant: the similarity and keyword_match weights are taken for each other
CombinedScoreWeightsSwapped(w, sig) ==
    w["keyword_match"] * sig.similarity
    + w["similarity"] * sig.keyword_match
    + w["recency"] * sig.recency
    + w["chunk_position"] * sig.chunk_position
    + w["doc_frequency"] * sig.doc_frequency

\* combined_score: the weighted sum over the five signal keys
CombinedScore(w, sig) ==
    w["similarity"] * sig.similarity
    + w["keyword_match"] * sig.keyword_match
    + w["recency"] * sig.recency
    + w["chunk_position"] * sig.chunk_position
    + w["doc_frequency"] * sig.doc_frequency

Scored(w, query, results, r) ==
    LET sig == Signals(query, results, r)
    IN  [chunk |-> r.chunk, similarity |-> r.similarity,
         reranking_scores |->
            [combined |-> CombinedScore(w, sig),
             similarity |-> sig.similarity,
             keyword_match |-> sig.keyword_match,
             recency |-> sig.recency,
             chunk_position |-> sig.chunk_position,
             doc_frequency |-> sig.doc_frequency]]

\* mutant: an element goes before the elements with the same key (a sort in
\* ascending order that is then reversed)
RECURSIVE InsertUnstable(_, _)
InsertUnstable(s, x) ==
    IF s = <<>> THEN <<x>>
    ELSE IF Head(s).reranking_scores.combined > x.reranking_scores.combined
         THEN <<Head(s)>> \o InsertUnstable(Tail(s), x)
         ELSE <<x>> \o s

\* list.sort(key=combined, reverse=True): a stable sort, so an element goes
\* behind every element whose key is at least its own
RECURSIVE InsertByCombined(_, _)
InsertByCombined(s, x) ==
    IF s = <<>> THEN <<x>>
    ELSE IF Head(s).reranking_scores.combined >= x.reranking_scores.combined
         THEN <<Head(s)>> \o InsertByCombined(Tail(s), x)
         ELSE <<x>> \o s

\* scored_results.sort(...): the sorted front and the next element are bound
\* as values, so that each is computed once
RECURSIVE SortByCombined(_)
SortByCombined(s) ==
    IF s = <<>> THEN <<>>
    ELSE Only({InsertByCombined(front, last) :
                   front \in {SortByCombined(SubSeq(s, 1, Len(s) - 1))},
                   last \in {s[Len(s)]}})

\* mutant: the weight map changes after the first candidate of the pass
RECURSIVE ScoreAllTorn(_, _, _, _)
ScoreAllTorn(w, query, results, n) ==
    IF n = 0 THEN <<>>
    ELSE Append(ScoreAllTorn(w, query, results, n - 1),
                Scored(IF n = 1 THEN w ELSE [w EXCEPT !["keyword_match"] = 5],
                       query, results, results[n]))

\* for result in results: ... scored_results.append(result), the first n
RECURSIVE ScoreAll(_, _, _, _)
ScoreAll(w, query, results, n) ==
    IF n = 0 THEN <<>>
    ELSE Append(ScoreAll(w, query, results, n - 1),
                Scored(w, query, results, results[n]))

\* LightweightReranker.rerank
rerank(w, query, results) ==
    IF results = <<>> THEN results
    ELSE Only({SortByCombined(scored_results) :
                   scored_results \in {ScoreAll(w, query, results, Len(results))}})

\* ------------------------------------------------------ context assembler
NameLen(filename) == IF filename = "x.md" THEN 4 ELSE 7

Digits(n) == IF n < 10 THEN 1 ELSE IF n < 100 THEN 2 ELSE 3

\* len(f"[{i}] {filename} (チャンク {chunk_index + 1}/{total_chunks}):")
HeaderLen(i, md) ==
    Digits(i) + 3 + NameLen(md.source_filename) + 1 + 9
    + Digits(md.chunk_index + 1) + Digits(md.total_chunks)

\* the lines of one context entry: the header line, then the text
BlockLines(i, r) == <<HeaderLen(i, Metadata(r))>> \o Text(r)

\* the lines of '\n\n'.join(context_parts); the empty string is one empty line
RECURSIVE JoinBlocks(_)
JoinBlocks(parts) ==
    IF parts = <<>> THEN <<0>>
    ELSE IF Len(parts) = 1 THEN parts[1].lines
    ELSE parts[1].lines \o <<0>> \o JoinBlocks(Tail(parts))

ContextLines(parts) == JoinBlocks(parts)
ContextLen(parts) == StrLen(ContextLines(parts))

\* mutant: the excerpt is the whole text
ExcerptWholeText(n) == n

\* text[:200] + '...' if len(text) > 200 else text, as a length
ExcerptLen(n) == IF n > ExcerptLength THEN ExcerptLength + 3 ELSE n

RerankingScore(r) ==
    IF "reranking_scores" \in DOMAIN r THEN r.reranking_scores.combined ELSE 0

\* mutant: the sources numbered from 0, as enumerate does by default
SourceZeroBased(i, r) ==
    [index |-> i - 1,
     filename |-> Metadata(r).source_filename,
     chunk_index |-> Metadata(r).chunk_index,
     total_chunks |-> Metadata(r).total_chunks,
     similarity |-> r.similarity,
     reranking_score |-> RerankingScore(r),
     excerpt |-> ExcerptLen(TextLen(r))]

Source(i, r) ==
    [index |-> i,
     filename |-> Metadata(r).source_filename,
     chunk_index |-> Metadata(r).chunk_index,
     total_chunks |-> Metadata(r).total_chunks,
     similarity |-> r.similarity,
     reranking_score |-> RerankingScore(r),
     excerpt |-> ExcerptLen(TextLen(r))]

\* mutant: the budget test without "and context_parts": a first candidate
\* over the budget is refused too
RECURSIVE BuildLoopStrict(_, _, _, _, _)
BuildLoopStrict(top_results, i, max_length, acc, current_length) ==
    IF i > Len(top_results) THEN acc
    ELSE IF current_length + TextLen(top_results[i]) > max_length
         THEN acc
    ELSE BuildLoopStrict(top_results, i + 1, max_length,
                   [context |-> Append(acc.context,
                                       [index |-> i, ref |-> top_results[i].chunk,
                                        lines |-> BlockLines(i, top_results[i])]),
                    sources |-> Append(acc.sources, Source(i, top_results[i]))],
                   current_length + TextLen(top_results[i]))

\* the loop of build_context from entry i on; acc holds context_parts and
\* sources, current_length the text accepted so far
RECURSIVE BuildLoop(_, _, _, _, _)
BuildLoop(top_results, i, max_length, acc, current_length) ==
    IF i > Len(top_results) THEN acc
    ELSE IF current_length + TextLen(top_results[i]) > max_length
            /\ acc.context # <<>>
         THEN acc
    ELSE BuildLoop(top_results, i + 1, max_length,
                   [context |-> Append(acc.context,
                                       [index |-> i, ref |-> top_results[i].chunk,
                                        lines |-> BlockLines(i, top_results[i])]),
                    sources |-> Append(acc.sources, Source(i, top_results[i]))],
                   current_length + TextLen(top_results[i]))

\* mutant: without top_results = results[:max_sources]
build_context_all_results(results, max_length, max_sources) ==
    BuildLoop(results, 1, max_length, [context |-> <<>>, sources |-> <<>>], 0)

\* RAGChatService.build_context
build_context(results, max_length, max_sources) ==
    BuildLoop(Take(results, max_sources), 1, max_length,
              [context |-> <<>>, sources |-> <<>>], 0)

\* ------------------------------------------------------------ web search
\* what the search wrapper can return, in rank order: title and url as
\* lengths (url 0: no link), snippet as lines
WebRanking ==
    << [id |-> "w1", title |-> 12, url |-> 30, snippet |-> <<150>>],
       [id |-> "w2", title |-> 8, url |-> 0, snippet |-> <<120, 200>>],
       [id |-> "w3", title |-> 20, url |-> 25, snippet |-> <<0>>],
       [id |-> "w4", title |-> 5, url |-> 40, snippet |-> <<90>>] >>

\* WebSearchService.search_web_detailed: outcome "raise" of the wrapper is
\* caught and gives [], else the first outcome results with their rank
search_web_detailed(outcome, max_results) ==
    IF outcome.raise THEN <<>>
    ELSE [idx \in 1..Min(outcome.found, Max(max_results, 0)) |->
            [id |-> WebRanking[idx].id, title |-> WebRanking[idx].title,
             url |-> WebRanking[idx].url, snippet |-> WebRanking[idx].snippet,
             rank |-> idx]]

WebBlockLines(i, r) ==
    <<Digits(i) + 3 + r.title>>
    \o (IF r.url # 0 THEN <<5 + r.url>> ELSE <<>>)
    \o (IF StrLen(r.snippet) > 0 THEN r.snippet ELSE <<>>)

\* WebSearchService.build_web_context
build_web_context(search_results, max_sources) ==
    LET top == Take(search_results, max_sources)
    IN  [context |-> [i \in DOMAIN top |->
                        [index |-> i, ref |-> top[i].id,
                         lines |-> WebBlockLines(i, top[i])]],
         sources |-> [i \in DOMAIN top |->
                        [title |-> top[i].title,
                         url |-> IF top[i].url # 0 THEN top[i].url ELSE 3,
                         snippet |-> IF StrLen(top[i].snippet) > 0
                                     THEN Min(StrLen(top[i].snippet), ExcerptLength)
                                     ELSE 20,
                         source_index |-> i]]]

\* --------------------------------------------------- conversation memory
Threads == {"t1", "t2"}

Message(role, content) == [role |-> role, content |-> content]

\* mutant: every message of the thread
get_context_whole_thread(conv, thread_id, max_messages) ==
    conv[thread_id].messages

\* ConversationMemoryService.get_context: the last max_messages messages
get_context(conv, thread_id, max_messages) ==
    LET messages == conv[thread_id].messages
    IN  SubSeq(messages, Max(1, Len(messages) - max_messages + 1), Len(messages))

\* ConversationMemoryService.create_thread, with _save_thread
create_thread(conv, thread_id, title) ==
    IF thread_id \in DOMAIN conv THEN conv
    ELSE [t \in DOMAIN conv \cup {thread_id} |->
            IF t = thread_id
            THEN [id |-> thread_id, title |-> title, message_count |-> 0,
                  messages |-> <<>>]
            ELSE conv[t]]

\* ConversationMemoryService.add_message, with _save_thread
add_message(conv, thread_id, role, content) ==
    IF thread_id \notin DOMAIN conv THEN conv
    ELSE [conv EXCEPT ![thread_id] =
            [@ EXCEPT !.messages = Append(@, Message(role, content)),
                      !.message_count = @ + 1]]

\* _load_thread: the thread as read back from its file
load_thread(conv, files, thread_id) ==
    [t \in DOMAIN conv \cup {thread_id} |->
        IF t = thread_id THEN files[thread_id] ELSE conv[t]]

\* the outcomes of get_thread_info(thread_id): "cached", or through
\* _load_thread "loaded", "unreadable" when reading the file fails (which
\* _load_thread answers with False, as for a missing file), "absent", or
\* "raise" when the file test fails
ThreadInfoOutcomes(conv, files, thread_id) ==
    IF thread_id \in DOMAIN conv THEN {"cached"}
    ELSE IF thread_id \in DOMAIN files THEN {"loaded", "unreadable", "raise"}
    ELSE {"absent", "raise"}

AfterThreadInfo(conv, files, thread_id, outcome) ==
    IF outcome = "loaded" THEN load_thread(conv, files, thread_id) ELSE conv

\* ------------------------------------------------------------ generation
\* the literal texts of the responses, by their length
CannedText(kind) ==
    [kind |-> kind, preview |-> <<>>,
     len |-> CASE kind = "no_source" -> 41
               [] kind = "not_found_db" -> 34
               [] kind = "not_found_web" -> 36
               [] kind = "no_web_context" -> 27
               [] kind = "generation_failed" -> 23
               [] kind = "not_found_fallback" -> 44]

\* the text an exception e is reported with; str(e) has length e.len
ErrorText(e) == [kind |-> "error", preview |-> <<>>, len |-> 12 + e.len]
WebErrorText(e) == [kind |-> "web_error", preview |-> <<>>, len |-> 19 + e.len]

Exceptions ==
    [search |-> [name |-> "SearchError", len |-> 15],
     memory |-> [name |-> "OSError", len |-> 40]]

\* response.content of the model: the outcomes of llm.invoke that return
LLMText(outcome) ==
    [kind |-> "llm", preview |-> <<>>, len |-> IF outcome = "empty" THEN 0 ELSE 80]

LLMOutcomes == {"text", "empty", "timeout", "error"}

\* mutant: the whole context instead of context_lines[:10]
generate_fallback_whole_context(query, context) ==
    IF context = <<>> THEN CannedText("not_found_fallback")
    ELSE LET preview == ContextLines(context)
         IN  [kind |-> "fallback", preview |-> preview,
              len |-> 17 + query.len + 2 + StrLen(preview) + 2 + 36]

\* RAGChatService._generate_fallback_response
generate_fallback_response(query, context) ==
    IF context = <<>> THEN CannedText("not_found_fallback")
    ELSE LET context_lines == ContextLines(context)
             preview == Take(context_lines, PreviewLines)
         IN  [kind |-> "fallback", preview |-> preview,
              len |-> 17 + query.len + 2 + StrLen(preview) + 2 + 36]

\* what generate_response returns once llm.invoke has ended with outcome
generate_response(query, context, outcome) ==
    IF outcome \in {"text", "empty"} THEN LLMText(outcome)
    ELSE generate_fallback_response(query, context)

\* ------------------------------------------------------------------ state
VARIABLES
    pc,                   \* where chat() is: idle, RECEIVED, ..., RETURNED
    req,                  \* the arguments of the running chat()
    search_results,       \* web_results / search_results['results']
    ranked_results,
    context,              \* context_parts of the assembled context
    sources,
    conversation_context, \* the history read by generate_response
    response,             \* the generated text
    result,               \* the value chat() returned
    calls,                \* collaborator invocations of the running chat()
    outcomes,             \* and how each of them ended
    elapsed,              \* datetime.now() - start_time, in steps
    conversations,        \* ConversationMemoryService.conversations
    disk,                 \* the thread files under storage_path
    weights,              \* LightweightReranker.weights
    llm,                  \* RAGChatService.llm is set
    nreq,                 \* requests received so far
    call,                 \* a direct call of rerank / build_context
    ret,                  \* and what it returned
    waiting,              \* requests accepted by the server, not yet started
    index                 \* the Chroma collection: its entries, one per id

chatVars == <<pc, req, search_results, ranked_results, context, sources,
              conversation_context, response, result, calls, outcomes, elapsed>>
memVars == <<conversations, disk>>
callVars == <<call, ret>>

NoCall == [op |-> "none"]
NoReturn == [returned |-> FALSE]
vars == <<pc, req, search_results, ranked_results, context, sources,
          conversation_context, response, result, calls, outcomes, elapsed,
          conversations, disk, weights, llm, nreq, call, ret, waiting,
          index>>

\* how often each collaborator was called, and the number of results the
\* search was asked for
NoCalls == [vector |-> 0, web |-> 0, llm |-> 0, memory |-> 0, search_n |-> 0]
NoOutcomes ==
    [vector |-> "none", web |-> "none", history |-> "none", llm |-> "none",
     store |-> "none"]

ChatQueries == {q \in Queries : q.id = "q1"}

Requests ==
    [query : ChatQueries, conversation_id : Threads \cup {None},
     n_results : 1..MaxN, use_reranking : BOOLEAN, use_database : BOOLEAN,
     use_web_search : BOOLEAN]

\* the weight maps update_reranker_weights is called with
WeightUpdates ==
    { [similarity |-> 10, keyword_match |-> 0, recency |-> 0,
       chunk_position |-> 0, doc_frequency |-> 0],
      [keyword_match |-> 5] }

\* mutant: the dict is replaced by the one given
DictReplace(d, m) == m

\* dict.update
DictUpdate(d, m) ==
    [k \in DOMAIN d \cup DOMAIN m |-> IF k \in DOMAIN m THEN m[k] ELSE d[k]]

InitChat ==
    /\ pc = "idle"
    /\ req = Unbound
    /\ search_results = <<>>
    /\ ranked_results = <<>>
    /\ context = <<>>
    /\ sources = <<>>
    /\ conversation_context = <<>>
    /\ response = Unbound
    /\ result = Unbound
    /\ calls = NoCalls
    /\ outcomes = NoOutcomes
    /\ elapsed = 0
    /\ conversations = <<>>
    /\ disk = <<>>
    /\ nreq = 0
    /\ waiting = <<>>
    /\ index = {}

Init ==
    /\ InitChat
    /\ weights = DefaultWeights
    /\ llm \in BOOLEAN
    /\ call = NoCall
    /\ ret = NoReturn

\* ------------------------------------------------------------ responses
NoSourceResponse ==
    [query |-> req.query.id, response |-> CannedText("no_source"),
     sources |-> <<>>, search_results |-> 0, search_type |-> "none",
     processing_time |-> elapsed + 1]

NotFoundResponse(search_type) ==
    [query |-> req.query.id,
     response |-> CannedText(IF search_type = "web" THEN "not_found_web"
                             ELSE "not_found_db"),
     sources |-> <<>>, search_results |-> 0, search_type |-> search_type,
     processing_time |-> elapsed + 1]

NoWebContextResponse ==
    [query |-> req.query.id, response |-> CannedText("no_web_context"),
     sources |-> <<>>, search_results |-> Len(search_results),
     search_type |-> "web", processing_time |-> elapsed + 1]

\* except Exception as web_error  (inside the web branch)
WebErrorResponse(e) ==
    [query |-> req.query.id, response |-> WebErrorText(e), sources |-> <<>>,
     search_results |-> 0, search_type |-> "web", error |-> e.name,
     processing_time |-> elapsed + 1]

\* except Exception as e  (the boundary of chat)
ErrorResponse(e) ==
    [query |-> req.query.id, response |-> ErrorText(e), error |-> e.name,
     processing_time |-> elapsed + 1]

WebResponse ==
    [query |-> req.query.id, response |-> response, sources |-> sources,
     search_results |-> Len(search_results), search_type |-> "web",
     conversation_id |-> req.conversation_id,
     processing_time |-> elapsed + 1, timestamp |-> elapsed + 1]

DatabaseResponse ==
    [query |-> req.query.id, response |-> response, sources |-> sources,
     search_results |-> Len(ranked_results), search_type |-> "database",
     used_reranking |-> req.use_reranking,
     conversation_id |-> req.conversation_id,
     processing_time |-> elapsed + 1, timestamp |-> elapsed + 1]

Return(r) ==
    /\ pc' = "RETURNED"
    /\ result' = r
    /\ elapsed' = elapsed + 1

\* an exception that leaves chat(): the caller gets no value
Propagate(e) ==
    /\ pc' = "RAISED"
    /\ result' = result
    /\ elapsed' = elapsed + 1

\* try: ... except Exception as e: return {...}  around the body of chat
ChatBoundary(e) == Return(ErrorResponse(e))

Goto(state) ==
    /\ pc' = state
    /\ result' = result
    /\ elapsed' = elapsed + 1

OnWebPath == req.use_web_search

\* ---------------------------------------------------------- vector index
\* the indexed chunks in the order of their similarity to the chat query
IndexOrder == <<"c1", "c2", "c5", "c3", "c4">>
IndexSimilarity == [c1 |-> 9, c2 |-> 9, c5 |-> 9, c3 |-> 3, c4 |-> 3]

\* LangChainVectorizationService.search over an index holding the chunks
\* indexed: the n_results most similar ones, most similar first
search(indexed, n_results) ==
    LET hits == SelectSeq(IndexOrder, LAMBDA c : c \in indexed)
        top == Take(hits, Max(n_results, 0))
    IN  [i \in DOMAIN top |-> [chunk |-> top[i], similarity |-> IndexSimilarity[top[i]]]]

\* what the collaborators can do: the web wrapper raises or finds some
\* results; the index raises or holds some chunks
WebOutcomes ==
    {[raise |-> TRUE, found |-> 0]}
    \cup {[raise |-> FALSE, found |-> k] : k \in 0..Len(WebRanking)}

VectorOutcomes ==
    {[raise |-> TRUE, indexed |-> {}]}
    \cup {[raise |-> FALSE, indexed |-> S] : S \in SUBSET ChunkIds}

\* ------------------------------------------------------------ operations
\* chat() is entered: start_time = datetime.now()
\* mutant: the thread of the request is created on entry
EnterCreatingThread(r) ==
    /\ pc = "idle"
    /\ nreq < MaxRequests
    /\ nreq' = nreq + 1
    /\ req' = r
    /\ pc' = "RECEIVED"
    /\ elapsed' = 0
    /\ calls' = NoCalls
    /\ outcomes' = NoOutcomes
    /\ result' = Unbound
    /\ conversations' = IF r.conversation_id = None THEN conversations
                        ELSE create_thread(conversations, r.conversation_id,
                                           r.query.id)
    /\ UNCHANGED <<search_results, ranked_results, context, sources,
                   conversation_context, response, disk, weights, llm, call,
                   ret, index>>

\* the endpoint's handler is entered with request r
Enter(r) ==
    /\ pc = "idle"
    /\ nreq < MaxRequests
    /\ nreq' = nreq + 1
    /\ req' = r
    /\ pc' = "RECEIVED"
    /\ elapsed' = 0
    /\ calls' = NoCalls
    /\ outcomes' = NoOutcomes
    /\ result' = Unbound
    /\ UNCHANGED <<search_results, ranked_results, context, sources,
                   conversation_context, response, conversations, disk,
                   weights, llm, call, ret, index>>

\* POST /api/aichat/chat: the handler starts as soon as the request arrives
Receive(r) ==
    /\ Enter(r)
    /\ UNCHANGED waiting

\* mutant: use_database is tested before use_web_search
DispatchDatabaseFirst ==
    /\ pc = "RECEIVED"
    /\ IF req.use_database THEN Goto("DISPATCHED_db")
       ELSE IF req.use_web_search THEN Goto("DISPATCHED_web")
       ELSE Return(NoSourceResponse)
    /\ UNCHANGED <<req, search_results, ranked_results, context, sources,
                   conversation_context, response, calls, outcomes,
                   conversations, disk, weights, llm, nreq, call, ret,
                   waiting, index>>

\* if use_web_search: ... elif use_database: ... else: ...
Dispatch ==
    /\ pc = "RECEIVED"
    /\ IF req.use_web_search THEN Goto("DISPATCHED_web")
       ELSE IF req.use_database THEN Goto("DISPATCHED_db")
       ELSE Return(NoSourceResponse)
    /\ UNCHANGED <<req, search_results, ranked_results, context, sources,
                   conversation_context, response, calls, outcomes,
                   conversations, disk, weights, llm, nreq, call, ret,
                   waiting, index>>

\* web_results = search_web_detailed(query, max_results=n_results)
WebSearch(outcome) ==
    /\ pc = "DISPATCHED_web"
    /\ calls' = [calls EXCEPT !.web = @ + 1, !.search_n = req.n_results]
    /\ outcomes' = [outcomes EXCEPT !.web =
                        IF outcome.raise THEN "raise"
                        ELSE IF search_web_detailed(outcome, req.n_results) = <<>>
                        THEN "empty" ELSE "hits"]
    /\ LET web_results == search_web_detailed(outcome, req.n_results)
       IN  /\ search_results' = web_results
           /\ IF web_results = <<>> THEN Return(NotFoundResponse("web"))
              ELSE Goto("RETRIEVED")
    /\ UNCHANGED <<req, ranked_results, context, sources, conversation_context,
                   response, conversations, disk, weights, llm, nreq, call, ret,
                   waiting, index>>

\* mutant: max_sources=n_results in place of max_sources=3
BuildWebContextUncapped ==
    /\ pc = "RETRIEVED"
    /\ OnWebPath
    /\ LET built == build_web_context(search_results, req.n_results)
       IN  /\ context' = built.context
           /\ sources' = built.sources
           /\ IF built.context = <<>> THEN Return(NoWebContextResponse)
              ELSE Goto("CONTEXT_BUILT")
    /\ UNCHANGED <<req, search_results, ranked_results, conversation_context,
                   response, calls, outcomes, conversations, disk, weights,
                   llm, nreq, call, ret, waiting, index>>

\* context, sources = build_web_context(web_results, max_sources=3)
BuildWebContext ==
    /\ pc = "RETRIEVED"
    /\ OnWebPath
    /\ LET built == build_web_context(search_results, WebMaxSources)
       IN  /\ context' = built.context
           /\ sources' = built.sources
           /\ IF built.context = <<>> THEN Return(NoWebContextResponse)
              ELSE Goto("CONTEXT_BUILT")
    /\ UNCHANGED <<req, search_results, ranked_results, conversation_context,
                   response, calls, outcomes, conversations, disk, weights,
                   llm, nreq, call, ret, waiting, index>>

\* mutant: without  if not search_results.get('results'): return {...}
VectorSearchNoEmptyCheck(outcome) ==
    /\ pc = "DISPATCHED_db"
    /\ calls' = [calls EXCEPT !.vector = @ + 1,
                              !.search_n = IF req.use_reranking
                                           THEN req.n_results * 2
                                           ELSE req.n_results]
    /\ LET search_n == IF req.use_reranking THEN req.n_results * 2
                       ELSE req.n_results
       IN  IF outcome.raise
           THEN /\ ChatBoundary(Exceptions.search)
                /\ UNCHANGED search_results
           ELSE /\ search_results' = search(outcome.indexed, search_n)
                /\ Goto("RETRIEVED")
    /\ outcomes' = [outcomes EXCEPT !.vector =
                        IF outcome.raise THEN "raise"
                        ELSE IF search_results' = <<>> THEN "empty" ELSE "hits"]
    /\ UNCHANGED <<req, ranked_results, context, sources, conversation_context,
                   response, conversations, disk, weights, llm, nreq, call, ret,
                   waiting, index>>

\* mutant: a search that raised is attempted a second time
VectorSearchRetry(outcome) ==
    /\ pc = "DISPATCHED_db"
    /\ calls' = [calls EXCEPT !.vector = IF outcome.raise THEN @ + 2 ELSE @ + 1,
                              !.search_n = IF req.use_reranking
                                           THEN req.n_results * 2
                                           ELSE req.n_results]
    /\ LET search_n == IF req.use_reranking THEN req.n_results * 2
                       ELSE req.n_results
       IN  IF outcome.raise
           THEN /\ ChatBoundary(Exceptions.search)
                /\ UNCHANGED search_results
           ELSE /\ search_results' = search(outcome.indexed, search_n)
                /\ IF search_results' = <<>>
                   THEN Return(NotFoundResponse("database"))
                   ELSE Goto("RETRIEVED")
    /\ outcomes' = [outcomes EXCEPT !.vector =
                        IF outcome.raise THEN "raise"
                        ELSE IF search_results' = <<>> THEN "empty" ELSE "hits"]
    /\ UNCHANGED <<req, ranked_results, context, sources, conversation_context,
                   response, conversations, disk, weights, llm, nreq, call, ret,
                   waiting, index>>

\* search_results = vector_service.search(query, n_results=search_n)
VectorSearch(outcome) ==
    /\ pc = "DISPATCHED_db"
    /\ calls' = [calls EXCEPT !.vector = @ + 1,
                              !.search_n = IF req.use_reranking
                                           THEN req.n_results * 2
                                           ELSE req.n_results]
    /\ LET search_n == IF req.use_reranking THEN req.n_results * 2
                       ELSE req.n_results
       IN  IF outcome.raise
           THEN /\ ChatBoundary(Exceptions.search)
                /\ UNCHANGED search_results
           ELSE /\ search_results' = search(outcome.indexed, search_n)
                /\ IF search_results' = <<>>
                   THEN Return(NotFoundResponse("database"))
                   ELSE Goto("RETRIEVED")
    /\ outcomes' = [outcomes EXCEPT !.vector =
                        IF outcome.raise THEN "raise"
                        ELSE IF search_results' = <<>> THEN "empty" ELSE "hits"]
    /\ UNCHANGED <<req, ranked_results, context, sources, conversation_context,
                   response, conversations, disk, weights, llm, nreq, call, ret,
                   waiting, index>>

\* mutant: without  ranked_results = ranked_results[:n_results]
RerankNoTruncation ==
    /\ pc = "RETRIEVED"
    /\ ~OnWebPath
    /\ ranked_results' =
          IF req.use_reranking
          THEN rerank(weights, req.query, search_results)
          ELSE search_results
    /\ Goto("RERANKED")
    /\ UNCHANGED <<req, search_results, context, sources, conversation_context,
                   response, calls, outcomes, conversations, disk, weights,
                   llm, nreq, call, ret, waiting, index>>

\* ranked_results = rerank(query, results)[:n_results], or the results as
\* retrieved
Rerank ==
    /\ pc = "RETRIEVED"
    /\ ~OnWebPath
    /\ ranked_results' =
          IF req.use_reranking
          THEN Take(rerank(weights, req.query, search_results), req.n_results)
          ELSE search_results
    /\ Goto("RERANKED")
    /\ UNCHANGED <<req, search_results, context, sources, conversation_context,
                   response, calls, outcomes, conversations, disk, weights,
                   llm, nreq, call, ret, waiting, index>>

\* context, sources = self.build_context(ranked_results)
BuildContext ==
    /\ pc = "RERANKED"
    /\ LET built == build_context(ranked_results, DefaultMaxLength, DefaultMaxSources)
       IN  /\ context' = built.context
           /\ sources' = built.sources
    /\ Goto("CONTEXT_BUILT")
    /\ UNCHANGED <<req, search_results, ranked_results, conversation_context,
                   response, calls, outcomes, conversations, disk, weights,
                   llm, nreq, call, ret, waiting, index>>

\* an exception raised inside generate_response: caught by the web branch,
\* or at the boundary of chat
GenerationRaised(e) ==
    IF OnWebPath THEN Return(WebErrorResponse(e)) ELSE ChatBoundary(e)

\* if not response: response = "...応答の生成に失敗しました。"  (web branch only)
Checked(text) ==
    IF OnWebPath /\ text.len = 0 THEN CannedText("generation_failed") ELSE text

\* generate_response up to llm.invoke: without a model the fallback; else
\* the history of the thread, read when get_thread_info finds the thread
GeneratePrepare(outcome) ==
    /\ pc = "CONTEXT_BUILT"
    /\ IF ~llm
       THEN /\ outcome = "no_llm"
            /\ response' = Checked(generate_fallback_response(req.query, context))
            /\ outcomes' = [outcomes EXCEPT !.llm = "no_llm"]
            /\ Goto("GENERATED")
            /\ UNCHANGED <<conversation_context, conversations, calls>>
       ELSE IF req.conversation_id = None
       THEN /\ outcome = "no_thread_id"
            /\ conversation_context' = <<>>
            /\ Goto("PROMPTED")
            /\ UNCHANGED <<response, conversations, calls, outcomes>>
       ELSE /\ outcome \in ThreadInfoOutcomes(conversations, disk, req.conversation_id)
            /\ calls' = [calls EXCEPT !.memory = @ + 1]
            /\ outcomes' = [outcomes EXCEPT !.history = outcome]
            /\ conversations' =
                  AfterThreadInfo(conversations, disk, req.conversation_id, outcome)
            /\ IF outcome = "raise"
               THEN /\ GenerationRaised(Exceptions.memory)
                    /\ UNCHANGED <<response, conversation_context>>
               ELSE /\ conversation_context' =
                          IF outcome \in {"absent", "unreadable"} THEN <<>>
                          ELSE get_context(conversations', req.conversation_id,
                                           HistoryMessages)
                    /\ Goto("PROMPTED")
                    /\ UNCHANGED response
    /\ UNCHANGED <<req, search_results, ranked_results, context, sources, disk,
                   weights, llm, nreq, call, ret, waiting, index>>

\* response = self.llm.invoke(messages), or the fallback when it fails
LLMInvoke(outcome) ==
    /\ pc = "PROMPTED"
    /\ calls' = [calls EXCEPT !.llm = @ + 1]
    /\ outcomes' = [outcomes EXCEPT !.llm = outcome]
    /\ response' = Checked(generate_response(req.query, context, outcome))
    /\ Goto("GENERATED")
    /\ UNCHANGED <<req, search_results, ranked_results, context, sources,
                   conversation_context, conversations, disk, weights, llm,
                   nreq, call, ret, waiting, index>>

\* the two messages of the request, the thread created first when missing
Stored(conv) ==
    LET tid == req.conversation_id
        created == create_thread(conv, tid, req.query.id)
        human == add_message(created, tid, "human", [req |-> nreq, text |-> "query"])
    IN  add_message(human, tid, "ai", [req |-> nreq, text |-> "response"])

\* store in conversation memory, then return the response
StoreAndReturn(outcome) ==
    /\ pc = "GENERATED"
    /\ IF req.conversation_id = None
       THEN /\ outcome = "no_thread_id"
            /\ Return(IF OnWebPath THEN WebResponse ELSE DatabaseResponse)
            /\ UNCHANGED <<conversations, disk, calls, outcomes>>
       ELSE /\ outcome \in ThreadInfoOutcomes(conversations, disk, req.conversation_id)
            /\ calls' = [calls EXCEPT !.memory = @ + 1]
            /\ outcomes' = [outcomes EXCEPT !.store = outcome]
            /\ IF outcome = "raise"
               THEN /\ ChatBoundary(Exceptions.memory)
                    /\ UNCHANGED <<conversations, disk>>
               ELSE /\ conversations' =
                          Stored(AfterThreadInfo(conversations, disk,
                                                 req.conversation_id, outcome))
                    /\ disk' = [t \in DOMAIN disk \cup {req.conversation_id} |->
                                  IF t = req.conversation_id
                                  THEN conversations'[t] ELSE disk[t]]
                    /\ Return(IF OnWebPath THEN WebResponse ELSE DatabaseResponse)
    /\ UNCHANGED <<req, search_results, ranked_results, context, sources,
                   conversation_context, response, weights, llm, nreq, call, ret,
                   waiting, index>>

\* the caller has the result; the service is ready for the next request
Finish ==
    /\ pc = "RETURNED"
    /\ pc' = "idle"
    /\ req' = Unbound
    /\ search_results' = <<>>
    /\ ranked_results' = <<>>
    /\ context' = <<>>
    /\ sources' = <<>>
    /\ conversation_context' = <<>>
    /\ response' = Unbound
    /\ result' = Unbound
    /\ calls' = NoCalls
    /\ outcomes' = NoOutcomes
    /\ elapsed' = 0
    /\ UNCHANGED <<conversations, disk, weights, llm, nreq, call, ret,
                   waiting, index>>

\* mutant: the map given replaces the weights, a key it lacks goes back to
\* its default
update_reranker_weights_replacing(m) ==
    /\ pc = "idle"
    /\ weights' = DictUpdate(DefaultWeights, m)
    /\ UNCHANGED <<chatVars, conversations, disk, llm, nreq, call, ret,
                   waiting, index>>

\* RAGChatService.update_reranker_weights
update_reranker_weights(m) ==
    /\ pc = "idle"
    /\ weights' = DictUpdate(weights, m)
    /\ UNCHANGED <<chatVars, conversations, disk, llm, nreq, call, ret,
                   waiting, index>>

Next ==
    \/ \E r \in Requests : Receive(r)
    \/ Dispatch
    \/ \E outcome \in WebOutcomes : WebSearch(outcome)
    \/ BuildWebContext
    \/ \E outcome \in VectorOutcomes : VectorSearch(outcome)
    \/ Rerank
    \/ BuildContext
    \/ \E outcome \in {"no_llm", "no_thread_id", "cached", "loaded", "unreadable", "absent", "raise"} :
          GeneratePrepare(outcome)
    \/ \E outcome \in LLMOutcomes : LLMInvoke(outcome)
    \/ \E outcome \in {"no_thread_id", "cached", "loaded", "unreadable", "absent", "raise"} :
          StoreAndReturn(outcome)
    \/ Finish
    \/ \E m \in WeightUpdates : update_reranker_weights(m)

Spec == Init /\ [][Next]_vars

\* the steps of a running chat(): it has no await, so once entered it runs
\* on until it returns
ChatStep ==
    \/ Dispatch
    \/ \E outcome \in WebOutcomes : WebSearch(outcome)
    \/ BuildWebContext
    \/ \E outcome \in VectorOutcomes : VectorSearch(outcome)
    \/ Rerank
    \/ BuildContext
    \/ \E outcome \in {"no_llm", "no_thread_id", "cached", "loaded", "unreadable", "absent", "raise"} :
          GeneratePrepare(outcome)
    \/ \E outcome \in LLMOutcomes : LLMInvoke(outcome)
    \/ \E outcome \in {"no_thread_id", "cached", "loaded", "unreadable", "absent", "raise"} :
          StoreAndReturn(outcome)

FairSpec == Init /\ [][Next]_vars /\ WF_vars(ChatStep)

\* ------------------------------------- chat and the conversation memory
\* the process is started again: ConversationMemoryService.__init__ begins
\* with no thread in memory, the files of the threads stay
Restart ==
    /\ pc = "idle"
    /\ conversations # <<>>
    /\ conversations' = <<>>
    /\ UNCHANGED <<chatVars, disk, weights, llm, nreq, call, ret, waiting, index>>

\* requests with a thread id
ThreadRequests ==
    [query : ChatQueries, conversation_id : Threads, n_results : {1},
     use_reranking : {FALSE}, use_database : {TRUE}, use_web_search : BOOLEAN]

\* the index raises, is empty, or holds one chunk
ThreadVectorOutcomes ==
    {o \in VectorOutcomes : o.indexed \subseteq {"c1"}}

NextMemory ==
    \/ \E r \in ThreadRequests : Receive(r)
    \/ Dispatch
    \/ \E outcome \in WebOutcomes : WebSearch(outcome)
    \/ BuildWebContext
    \/ \E outcome \in ThreadVectorOutcomes : VectorSearch(outcome)
    \/ Rerank
    \/ BuildContext
    \/ \E outcome \in {"no_llm", "no_thread_id", "cached", "loaded", "unreadable", "absent", "raise"} :
          GeneratePrepare(outcome)
    \/ \E outcome \in LLMOutcomes : LLMInvoke(outcome)
    \/ \E outcome \in {"no_thread_id", "cached", "loaded", "unreadable", "absent", "raise"} :
          StoreAndReturn(outcome)
    \/ Finish
    \/ Restart

SpecMemory == Init /\ [][NextMemory]_vars

\* ------------------------------------------------ chat in web search mode
\* requests with use_web_search set, asking for up to MaxWebN results
WebRequests ==
    [query : ChatQueries, conversation_id : {None, "t1"},
     n_results : 1..MaxWebN, use_reranking : {TRUE}, use_database : BOOLEAN,
     use_web_search : {TRUE}]

NextWeb ==
    \/ \E r \in WebRequests : Receive(r)
    \/ Dispatch
    \/ \E outcome \in WebOutcomes : WebSearch(outcome)
    \/ BuildWebContext
    \/ \E outcome \in {"no_llm", "no_thread_id", "cached", "loaded", "unreadable", "absent", "raise"} :
          GeneratePrepare(outcome)
    \/ \E outcome \in LLMOutcomes : LLMInvoke(outcome)
    \/ \E outcome \in {"no_thread_id", "cached", "loaded", "unreadable", "absent", "raise"} :
          StoreAndReturn(outcome)
    \/ Finish

SpecWeb == Init /\ [][NextWeb]_vars

\* ------------------------------------------- requests on the event loop
\* every endpoint of api/aichat.py is an async def and runs on the server's
\* one event loop; chat() is async and contains no await, its vector search
\* (vectorization_service.search) and its model call (llm.invoke) are plain
\* synchronous calls.  A request that arrives while a handler runs waits
\* until the loop is free.
LoopRequests ==
    [query : ChatQueries, conversation_id : {None}, n_results : {1},
     use_reranking : {TRUE}, use_database : BOOLEAN,
     use_web_search : BOOLEAN]

\* a client submits a chat request: it waits for the event loop
Submit(r) ==
    /\ Len(waiting) < MaxWaiting
    /\ nreq + Len(waiting) < MaxRequests
    /\ waiting' = Append(waiting, r)
    /\ UNCHANGED <<chatVars, conversations, disk, weights, llm, nreq, call,
                   ret, index>>

\* the event loop is free and runs the handler of the oldest waiting request
Start ==
    /\ waiting # <<>>
    /\ Enter(Head(waiting))
    /\ waiting' = Tail(waiting)

NextLoop ==
    \/ \E r \in LoopRequests : Submit(r)
    \/ Start
    \/ Dispatch
    \/ \E outcome \in WebOutcomes : WebSearch(outcome)
    \/ BuildWebContext
    \/ \E outcome \in ThreadVectorOutcomes : VectorSearch(outcome)
    \/ Rerank
    \/ BuildContext
    \/ \E outcome \in {"no_llm", "no_thread_id"} : GeneratePrepare(outcome)
    \/ \E outcome \in LLMOutcomes : LLMInvoke(outcome)
    \/ StoreAndReturn("no_thread_id")
    \/ Finish
    \/ \E m \in WeightUpdates : update_reranker_weights(m)

SpecLoop == Init /\ [][NextLoop]_vars

\* ------------------------------------------------- indexing of documents
\* SemanticTextSplitter(chunk_size=1000, overlap_percentage=0.15)
ChunkSize == 1000
OverlapPercent == 15
\* self.overlap_size = int(chunk_size * overlap_percentage)
OverlapSize == (ChunkSize * OverlapPercent) \div 100

\* a text is known by its number of characters and by whether it consists
\* of whitespace only (the empty text does)
TextSizes == {0, 2, ChunkSize, 1001, 1851}
Texts == {t \in [size : TextSizes, blank : BOOLEAN] : t.size = 0 => t.blank}

CeilDiv(a, b) == (a + b - 1) \div b

\* self.splitter.split_text(text) of the RecursiveCharacterTextSplitter
\* built in __init__ (strip_whitespace is left at its default): the chunks'
\* lengths.  Pieces are merged up to chunk_size, a merged chunk is stripped
\* and dropped when nothing is left of it; a text longer than chunk_size is
\* cut every chunk_size - chunk_overlap characters (a text without
\* separator characters is cut exactly there).
SplitterChunks(text) ==
    IF text.blank THEN <<>>
    ELSE IF text.size <= ChunkSize THEN <<text.size>>
    ELSE LET step == ChunkSize - OverlapSize
             n == CeilDiv(text.size - OverlapSize, step)
         IN  [i \in 1..n |-> IF i < n THEN ChunkSize
                             ELSE text.size - (n - 1) * step]

\* mutant: chunk_index counted from one
split_text_one_based(text, metadata) ==
    LET chunks == SplitterChunks(text)
    IN  [i \in 1..Len(chunks) |->
           [page_content |-> chunks[i],
            metadata |->
               DictUpdate([chunk_index |-> i, total_chunks |-> Len(chunks),
                           chunk_size |-> chunks[i],
                           overlap_size |-> OverlapSize], metadata)]]

\* SemanticTextSplitter.split_text: one Document per chunk; the metadata
\* passed in is merged over the chunk's own (metadata None is <<>>)
split_text(text, metadata) ==
    LET chunks == SplitterChunks(text)
    IN  [i \in 1..Len(chunks) |->
           [page_content |-> chunks[i],
            metadata |->
               DictUpdate([chunk_index |-> i - 1, total_chunks |-> Len(chunks),
                           chunk_size |-> chunks[i],
                           overlap_size |-> OverlapSize], metadata)]]

\* the files vectorize_file is called for
Filenames == {"a.md", "b.md", "notes.txt"}
EndsWithMd(filename) == filename \in {"a.md", "b.md"}

\* generate_doc_id: the md5 digest of the filename
generate_doc_id(filename) == <<"md5", filename>>

\* f"{doc_id}_{i}"
ChunkId(doc_id, i) == <<doc_id, i>>

\* the entries of the collection whose metadata carry doc_id
ChunksOf(idx, doc_id) == {c \in idx : c.metadata.doc_id = doc_id}

\* vector_store.add_texts(texts, metadatas, ids): an entry whose id is in
\* the collection already is overwritten, every other entry stays
add_texts(idx, documents, ids) ==
    {c \in idx : c.id \notin Range(ids)}
    \cup {[id |-> ids[i], page_content |-> documents[i].page_content,
           metadata |-> documents[i].metadata] : i \in DOMAIN documents}

\* vectorize_file's metadata for the chunks of filename
DocMetadata(filename, content) ==
    [source_filename |-> filename, doc_id |-> generate_doc_id(filename),
     file_size |-> content.size]

\* LangChainVectorizationService.vectorize_file(filename): the file exists
\* or not, holds content, and the vector store works or raises
vectorize_file(filename, exists, content, store) ==
    /\ call' = [op |-> "vectorize_file", filename |-> filename,
                content |-> content]
    /\ IF ~exists
       THEN /\ ret' = [returned |-> FALSE, raised |-> "FileNotFoundError"]
            /\ UNCHANGED index
       ELSE IF ~EndsWithMd(filename)
       THEN /\ ret' = [returned |-> FALSE, raised |-> "ValueError"]
            /\ UNCHANGED index
       ELSE IF store = "raise"
       THEN /\ ret' = [returned |-> FALSE, raised |-> "Exception"]
            /\ UNCHANGED index
       ELSE LET doc_metadata == DocMetadata(filename, content)
                documents == split_text(content, doc_metadata)
                ids == [i \in DOMAIN documents |->
                          ChunkId(doc_metadata.doc_id, i - 1)]
            IN  IF documents = <<>>
                THEN /\ ret' = [returned |-> TRUE,
                                value |-> [status |-> "skipped",
                                           filename |-> filename]]
                     /\ UNCHANGED index
                ELSE /\ index' = add_texts(index, documents, ids)
                     /\ ret' = [returned |-> TRUE,
                                value |-> [status |-> "success",
                                           filename |-> filename,
                                           chunks_created |-> Len(documents),
                                           doc_id |-> doc_metadata.doc_id,
                                           chunk_size |-> ChunkSize]]
    /\ UNCHANGED <<chatVars, conversations, disk, weights, llm, nreq, waiting>>

\* similarity_search("", k=1000, filter={"doc_id": doc_id}) in delete_document
DeleteSearchK == 1000

\* LangChainVectorizationService.delete_document(filename): results are the
\* entries found for the doc_id, DeleteSearchK at most; the ids
\* {doc_id}_0 .. {doc_id}_{len(results)-1} are deleted, or, when that
\* deletion raises, every entry whose metadata carry the doc_id
delete_document(filename, store) ==
    /\ call' = [op |-> "delete_document", filename |-> filename]
    /\ LET doc_id == generate_doc_id(filename)
           stored == ChunksOf(index, doc_id)
           found == Min(Cardinality(stored), DeleteSearchK)
           chunk_ids == {ChunkId(doc_id, i) : i \in 0..(found - 1)}
       IN  IF store = "raise"
           THEN /\ ret' = [returned |-> FALSE, raised |-> "Exception"]
                /\ UNCHANGED index
           ELSE IF found = 0
           THEN /\ ret' = [returned |-> TRUE,
                           value |-> [status |-> "not_found",
                                      filename |-> filename]]
                /\ UNCHANGED index
           ELSE /\ index' = IF store = "ok"
                            THEN {c \in index : c.id \notin chunk_ids}
                            ELSE index \ stored
                /\ ret' = [returned |-> TRUE,
                           value |-> [status |-> "success",
                                      filename |-> filename,
                                      chunks_deleted |-> found]]
    /\ UNCHANGED <<chatVars, conversations, disk, weights, llm, nreq, waiting>>

\* a direct call of SemanticTextSplitter.split_text
SplitTextCall(text, metadata) ==
    /\ call' = [op |-> "split_text", text |-> text, metadata |-> metadata]
    /\ ret' = [returned |-> TRUE, value |-> split_text(text, metadata)]
    /\ UNCHANGED <<chatVars, conversations, disk, weights, llm, nreq, waiting,
                   index>>

NextIndex ==
    \/ \E filename \in Filenames, exists \in BOOLEAN, content \in Texts,
          store \in {"ok", "raise"} :
          vectorize_file(filename, exists, content, store)
    \/ \E filename \in Filenames, store \in {"ok", "direct_fails", "raise"} :
          delete_document(filename, store)
    \/ \E text \in Texts :
          \/ SplitTextCall(text, <<>>)
          \/ SplitTextCall(text, DocMetadata("a.md", text))

SpecIndex == Init /\ [][NextIndex]_vars

\* ------------------------------------------------ deleting a document
\* a text of one chunk, of two, and the shortest text that is cut into
\* DeleteSearchK + 1 chunks
LongTextSize == OverlapSize + (ChunkSize - OverlapSize) * (DeleteSearchK + 1)
DeleteTexts == [size : {2, 1001, LongTextSize}, blank : {FALSE}]

NextDelete ==
    \/ \E content \in DeleteTexts : vectorize_file("a.md", TRUE, content, "ok")
    \/ \E content \in {t \in DeleteTexts : t.size < ChunkSize} :
          vectorize_file("b.md", TRUE, content, "ok")
    \/ \E filename \in {"a.md", "b.md"}, store \in {"ok", "direct_fails", "raise"} :
          delete_document(filename, store)

SpecDelete == Init /\ [][NextDelete]_vars

\* ------------------------------------------- direct calls of the reranker
ResultPool == [chunk : ChunkIds, similarity : Similarities]

\* result lists of distinct chunks, up to MaxResults long
ResultLists ==
    UNION {{l \in [1..n -> ResultPool] :
              \A i, j \in 1..n : i # j => l[i].chunk # l[j].chunk} :
           n \in 0..MaxResults}

\* weight maps the reranker can hold after update_reranker_weights calls
WeightChoices ==
    {DefaultWeights} \cup {DictUpdate(DefaultWeights, m) : m \in WeightUpdates}

InitRerank ==
    /\ InitChat
    /\ llm = FALSE
    /\ weights \in WeightChoices
    /\ call \in [op : {"rerank"}, query : Queries, results : ResultLists]
    /\ ret = NoReturn

RerankCall ==
    /\ call.op = "rerank"
    /\ ~ret.returned
    /\ ret' = [returned |-> TRUE, value |-> rerank(weights, call.query, call.results)]
    /\ UNCHANGED <<chatVars, conversations, disk, weights, llm, nreq, call,
                   waiting, index>>

SpecRerank == InitRerank /\ [][RerankCall]_vars

\* ------------------------------ direct calls of the context assemblers
\* web result lists as search_web_detailed builds them: distinct results,
\* each with its rank
WebResultLists ==
    UNION {{[i \in 1..n |-> [id |-> WebRanking[f[i]].id,
                             title |-> WebRanking[f[i]].title,
                             url |-> WebRanking[f[i]].url,
                             snippet |-> WebRanking[f[i]].snippet,
                             rank |-> i]] :
              f \in {g \in [1..n -> DOMAIN WebRanking] :
                        \A i, j \in 1..n : i # j => g[i] # g[j]}} :
           n \in 0..Len(WebRanking)}

MaxLengths == {0, 899, 900, 1999, DefaultMaxLength, 2400, 3500, 6000}

\* RAGService.build_context(search_results, max_context_length=3000)
RagDefaultMaxLength == 3000

\* len(f"[{filename}]:\n{text}\n\n")
RagFormattedLen(r) == 1 + NameLen(Metadata(r).source_filename) + 3 + TextLen(r) + 2

\* the loop of RAGService.build_context from result i on: a result whose
\* formatted text would pass the limit ends the loop
RECURSIVE RagLoop(_, _, _, _, _)
RagLoop(results, i, context_parts, total_length, max_context_length) ==
    IF i > Len(results) THEN context_parts
    ELSE LET formatted == RagFormattedLen(results[i])
         IN  IF total_length + formatted > max_context_length
             THEN context_parts
             ELSE RagLoop(results, i + 1,
                          Append(context_parts,
                                 [chunk |-> results[i].chunk,
                                  len |-> formatted]),
                          total_length + formatted, max_context_length)

\* RAGService.build_context: the parts joined to the context string
rag_build_context(results, max_context_length) ==
    RagLoop(results, 1, <<>>, 0, max_context_length)

InitContext ==
    /\ InitChat
    /\ llm = FALSE
    /\ weights = DefaultWeights
    /\ call \in [op : {"build_context"}, results : ResultLists,
                 max_length : MaxLengths, max_sources : 0..MaxSourcesBound]
               \cup [op : {"build_web_context"}, search_results : WebResultLists,
                     max_sources : 0..MaxSourcesBound]
               \cup [op : {"rag_build_context"}, results : ResultLists,
                     max_context_length : {100, 2400, RagDefaultMaxLength}]
    /\ ret = NoReturn

BuildContextCall ==
    /\ call.op = "build_context"
    /\ ~ret.returned
    /\ ret' = [returned |-> TRUE,
               value |-> build_context(call.results, call.max_length,
                                       call.max_sources)]
    /\ UNCHANGED <<chatVars, conversations, disk, weights, llm, nreq, call,
                   waiting, index>>

BuildWebContextCall ==
    /\ call.op = "build_web_context"
    /\ ~ret.returned
    /\ ret' = [returned |-> TRUE,
               value |-> build_web_context(call.search_results, call.max_sources)]
    /\ UNCHANGED <<chatVars, conversations, disk, weights, llm, nreq, call,
                   waiting, index>>

RagBuildContextCall ==
    /\ call.op = "rag_build_context"
    /\ ~ret.returned
    /\ ret' = [returned |-> TRUE,
               value |-> rag_build_context(call.results,
                                           call.max_context_length)]
    /\ UNCHANGED <<chatVars, conversations, disk, weights, llm, nreq, call,
                   waiting, index>>

NextContext ==
    \/ BuildContextCall
    \/ BuildWebContextCall
    \/ RagBuildContextCall

SpecContext == InitContext /\ [][NextContext]_vars

\* ===================================================== claims: reranker
RerankReturned == call.op = "rerank" /\ ret.returned

\* where the result of chunk c stood in the list handed to rerank
InputPosition(c) == CHOOSE i \in DOMAIN call.results : call.results[i].chunk = c

\* C6: rerank returns exactly the candidates it was given, each once, in
\* descending order of combined score, and two candidates with the same
\* combined score stay in the order in which they were retrieved.
C6_RerankStableSortedPermutation ==
    RerankReturned =>
        LET given == call.results
            out == ret.value
        IN  /\ Len(out) = Len(given)
            /\ \A i \in DOMAIN given :
                  Cardinality({j \in DOMAIN out :
                                  /\ out[j].chunk = given[i].chunk
                                  /\ out[j].similarity = given[i].similarity}) = 1
            /\ \A j, k \in DOMAIN out :
                  j < k =>
                     /\ out[j].reranking_scores.combined
                           >= out[k].reranking_scores.combined
                     /\ (out[j].reranking_scores.combined
                            = out[k].reranking_scores.combined
                         => InputPosition(out[j].chunk) < InputPosition(out[k].chunk))

\* a call that reordered its input and also had to keep a tie in place
C6_Witness ==
    /\ RerankReturned
    /\ Len(ret.value) = 3
    /\ ret.value[1].chunk # call.results[1].chunk
    /\ \E j, k \in DOMAIN ret.value :
          /\ j < k
          /\ ret.value[j].reranking_scores.combined
                = ret.value[k].reranking_scores.combined

SimilarityOnlyWeights ==
    /\ weights["similarity"] = 10
    /\ \A key \in SignalKeys \ {"similarity"} : weights[key] = 0

\* C7: with weight 1 on similarity and 0 on every other signal, a candidate
\* with a higher similarity is ranked before one with a lower similarity,
\* whatever their other signals are.
C7_SimilarityOnlyOrdersBySimilarity ==
    (RerankReturned /\ SimilarityOnlyWeights) =>
        \A j, k \in DOMAIN ret.value :
            ret.value[j].similarity > ret.value[k].similarity => j < k

\* the more similar candidate came second and loses on keyword match and
\* recency, and still goes first
C7_Witness ==
    /\ RerankReturned
    /\ SimilarityOnlyWeights
    /\ Len(call.results) = 2
    /\ call.results[1].similarity < call.results[2].similarity
    /\ ret.value[1].chunk = call.results[2].chunk
    /\ ret.value[1].reranking_scores.keyword_match
          < ret.value[2].reranking_scores.keyword_match
    /\ ret.value[1].reranking_scores.recency
          < ret.value[2].reranking_scores.recency

\* ============================================ claims: context assembler
ContextReturned == call.op = "build_context" /\ ret.returned

\* the text lengths of the first n results, summed
RECURSIVE TextLenSum(_, _)
TextLenSum(results, n) ==
    IF n = 0 THEN 0 ELSE TextLenSum(results, n - 1) + TextLen(results[n])

\* C8: the returned context string (headers and separators included) is no
\* longer than max_length, unless exactly one source was included and that
\* source's own text is longer than max_length.
C8_ContextWithinMaxLength ==
    ContextReturned =>
        \/ ContextLen(ret.value.context) <= call.max_length
        \/ /\ Len(ret.value.sources) = 1
           /\ TextLen(call.results[1]) > call.max_length

\* C9 as claimed: the number of sources is min(max_sources, len(results)).
C9_SourceCountIsMin ==
    ContextReturned =>
        Len(ret.value.sources) = Min(call.max_sources, Len(call.results))

\* C9 as amended: the number of sources is the number of leading candidates
\* accepted before the text budget is first exceeded: at most
\* min(max_sources, len(results)), at least 1 when that minimum is, every
\* accepted candidate after the first fits the budget, and the count falls
\* short of the minimum only when the next candidate would not fit.
C9_SourceCountUpToBudget ==
    ContextReturned =>
        LET m == Min(call.max_sources, Len(call.results))
            k == Len(ret.value.sources)
        IN  /\ k <= m
            /\ m >= 1 => k >= 1
            /\ \A j \in 2..k : TextLenSum(call.results, j) <= call.max_length
            /\ k < m => TextLenSum(call.results, k + 1) > call.max_length
            /\ TextLenSum(call.results, m) <= call.max_length => k = m

\* fewer sources than the minimum, the budget having cut the list
C9_Witness ==
    /\ ContextReturned
    /\ Len(call.results) = 3
    /\ call.max_sources = 3
    /\ Len(ret.value.sources) = 2

\* C10 as claimed: with at least one ranked result the context is not empty
\* and there is at least one source.
C10_NonEmptyWithOneResult ==
    (ContextReturned /\ Len(call.results) >= 1) =>
        /\ ret.value.context # <<>>
        /\ Len(ret.value.sources) >= 1

\* C10 as amended: with at least one ranked result and max_sources >= 1 the
\* first ranked candidate is accepted whatever its length, so the context is
\* not empty and the first source is that candidate with index 1.
C10_FirstCandidateAccepted ==
    (ContextReturned /\ Len(call.results) >= 1 /\ call.max_sources >= 1) =>
        /\ ret.value.context # <<>>
        /\ ContextLen(ret.value.context) > 0
        /\ Len(ret.value.sources) >= 1
        /\ ret.value.context[1].ref = call.results[1].chunk
        /\ ret.value.sources[1].index = 1
        /\ ret.value.sources[1].filename = Metadata(call.results[1]).source_filename
        /\ ret.value.sources[1].chunk_index = Metadata(call.results[1]).chunk_index

\* a first candidate longer than the whole budget, accepted alone
C10_Witness ==
    /\ ContextReturned
    /\ Len(call.results) >= 2
    /\ call.max_sources >= 2
    /\ TextLen(call.results[1]) > call.max_length
    /\ Len(ret.value.sources) = 1
    /\ ret.value.context[1].ref = call.results[1].chunk

\* ======================================================== claims: chat
InFlight == pc # "idle"
Returned == pc = "RETURNED"
HasError == "error" \in DOMAIN result

\* C1: chat never raises to its caller and always ends in RETURNED, whatever
\* the flags are and whichever collaborator raises; the value it returns
\* carries the query, a response text and the elapsed processing time.
C1_ChatAlwaysReturns ==
    /\ [](/\ pc # "RAISED"
          /\ Returned =>
                /\ {"query", "response", "processing_time"} \subseteq DOMAIN result
                /\ result.query = req.query.id
                /\ result.response.len \in Nat
                /\ result.processing_time >= 0)
    /\ ((pc = "RECEIVED") ~> Returned)

\* the model timed out and the memory raised, and chat returned all the same
C1_Witness ==
    /\ Returned
    /\ outcomes.llm = "timeout"
    /\ outcomes.store = "raise"
    /\ HasError

\* C2: the flags alone decide the mode: with use_web_search only the web
\* search is called, never the vector index, also when use_database is set;
\* else with use_database only the vector index is searched; else nothing is
\* searched and the response has search_type "none", no results, no sources
\* and no error.
C2_ModeDispatchByFlags ==
    InFlight =>
        /\ req.use_web_search =>
              (/\ calls.vector = 0
               /\ pc \notin {"RECEIVED", "DISPATCHED_web"} => calls.web = 1)
        /\ (~req.use_web_search /\ req.use_database) =>
              (/\ calls.web = 0
               /\ pc \notin {"RECEIVED", "DISPATCHED_db"} => calls.vector = 1)
        /\ (~req.use_web_search /\ ~req.use_database) =>
              (/\ calls.web = 0
               /\ calls.vector = 0
               /\ calls.llm = 0
               /\ Returned =>
                     /\ result.search_type = "none"
                     /\ result.search_results = 0
                     /\ result.sources = <<>>
                     /\ ~HasError)

\* both flags set: the web search ran and the index was left alone
C2_Witness ==
    /\ Returned
    /\ req.use_web_search
    /\ req.use_database
    /\ calls.web = 1
    /\ calls.vector = 0
    /\ outcomes.web = "hits"

\* C3: when the vector search finds nothing, chat returns the canned "not
\* found" response with no sources, zero results and search_type "database",
\* without error and without generating.
C3_EmptyRetrievalCannedResponse ==
    (Returned /\ outcomes.vector = "empty") =>
        /\ result.response = CannedText("not_found_db")
        /\ result.sources = <<>>
        /\ result.search_results = 0
        /\ result.search_type = "database"
        /\ ~HasError
        /\ calls.llm = 0
        /\ calls.memory = 0
        /\ outcomes.llm = "none"

C3_Witness ==
    /\ Returned
    /\ outcomes.vector = "empty"
    /\ llm
    /\ req.conversation_id # None
    /\ req.use_reranking

GenerationFailed == outcomes.llm \in {"timeout", "error", "no_llm"}

\* the first 10 lines of the context between the heading and the disclaimer
IsFallbackOf(text, query, parts) ==
    LET lines == ContextLines(parts)
        first == SubSeq(lines, 1, Min(PreviewLines, Len(lines)))
    IN  /\ text.kind = "fallback"
        /\ text.preview = first
        /\ text.len = 17 + query.len + 2 + StrLen(first) + 2 + 36

\* C4 as claimed: when something was retrieved and generation fails (the
\* call times out or raises, or there is no model), chat returns, without an
\* error, the fallback text with the sources and search type of its path.
C4_FallbackAlwaysReturned ==
    (Returned /\ GenerationFailed /\ Len(search_results) >= 1) =>
        /\ ~HasError
        /\ IsFallbackOf(result.response, req.query, context)
        /\ result.sources = sources
        /\ result.search_type = (IF req.use_web_search THEN "web" ELSE "database")

\* C4 as amended: then chat reaches GENERATED with the fallback text, and
\* returns it with the sources and search type of its path unless the
\* conversation memory raises when the turns are stored, in which case it
\* returns the error response.
C4_FallbackUnlessMemoryRaises ==
    (GenerationFailed /\ Len(search_results) >= 1) =>
        /\ pc \in {"GENERATED", "RETURNED"}
        /\ IsFallbackOf(response, req.query, context)
        /\ (Returned /\ outcomes.store # "raise") =>
              /\ ~HasError
              /\ result.response = response
              /\ result.sources = sources
              /\ Len(result.sources) >= 1
              /\ result.search_type = (IF req.use_web_search THEN "web" ELSE "database")
        /\ (Returned /\ outcomes.store = "raise") =>
              /\ HasError
              /\ result.response = ErrorText(Exceptions.memory)

\* the call timed out over a context of more than ten lines
C4_Witness ==
    /\ Returned
    /\ outcomes.llm = "timeout"
    /\ ~HasError
    /\ Len(ContextLines(context)) > PreviewLines
    /\ result.response.kind = "fallback"
    /\ Len(result.response.preview) = PreviewLines

\* C5: when something was retrieved the response text is not empty, whatever
\* the model does, an empty output being replaced like a failed call.
C5_ResponseNeverEmpty ==
    (Returned /\ Len(search_results) >= 1) => result.response.len > 0

\* ============================================ claims: context assemblers
WebContextReturned == call.op = "build_web_context" /\ ret.returned

\* C11: the k-th source has index k, the indices being 1..len(sources), and
\* the k-th block of the context carries the marker [k] and is the block of
\* the same candidate, the k-th of the list handed in: for build_context and
\* for build_web_context.
C11_CitationIndicesDense ==
    /\ ContextReturned =>
          LET v == ret.value
          IN  /\ Len(v.context) = Len(v.sources)
              /\ \A k \in DOMAIN v.sources :
                    /\ v.sources[k].index = k
                    /\ v.context[k].index = k
                    /\ v.context[k].ref = call.results[k].chunk
                    /\ v.context[k].lines =
                          BlockLines(k, call.results[k])
                    /\ v.sources[k].filename =
                          Metadata(call.results[k]).source_filename
                    /\ v.sources[k].chunk_index =
                          Metadata(call.results[k]).chunk_index
    /\ WebContextReturned =>
          LET v == ret.value
          IN  /\ Len(v.context) = Len(v.sources)
              /\ \A k \in DOMAIN v.sources :
                    /\ v.sources[k].source_index = k
                    /\ v.context[k].index = k
                    /\ v.context[k].ref = call.search_results[k].id
                    /\ v.context[k].lines = WebBlockLines(k, call.search_results[k])
                    /\ v.sources[k].title = call.search_results[k].title

\* three sources, numbered 1, 2, 3
C11_Witness ==
    /\ ContextReturned
    /\ Len(ret.value.sources) = 3
    /\ ret.value.sources[3].index = 3
    /\ ret.value.context[3].index = 3

\* C12 as claimed: every source's excerpt is at most 200 characters long: the
\* text itself when that is at most 200 long, else the truncated text with
\* its ellipsis.
C12_ExcerptAtMost200 ==
    ContextReturned =>
        \A k \in DOMAIN ret.value.sources :
            /\ ret.value.sources[k].excerpt <= 200
            /\ TextLen(call.results[k]) <= 200 =>
                  ret.value.sources[k].excerpt = TextLen(call.results[k])

\* C12 as amended: the excerpt is the text itself when that is at most 200
\* characters long, else its first 200 characters followed by the three
\* characters of '...', 203 characters in all.
C12_ExcerptAtMost203 ==
    ContextReturned =>
        \A k \in DOMAIN ret.value.sources :
            /\ ret.value.sources[k].excerpt <= 203
            /\ ret.value.sources[k].excerpt =
                  (IF TextLen(call.results[k]) <= 200
                   THEN TextLen(call.results[k]) ELSE 203)

\* a source of a long text next to a source of an empty one
C12_Witness ==
    /\ ContextReturned
    /\ Len(ret.value.sources) = 2
    /\ TextLen(call.results[1]) > 200
    /\ ret.value.sources[1].excerpt = 203
    /\ TextLen(call.results[2]) = 0
    /\ ret.value.sources[2].excerpt = 0

\* ================================================= claims: chat, again
OnCorpusPath == InFlight /\ ~req.use_web_search /\ req.use_database

\* C13: on the corpus path the index is asked for 2 * n_results candidates
\* with reranking and for n_results without; the list handed to
\* build_context, and the search_results count of the response, never exceed
\* n_results; and the used_reranking of the response is the use_reranking of
\* the request.
C13_CandidateCounts ==
    OnCorpusPath =>
        /\ calls.vector >= 1 =>
              calls.search_n = (IF req.use_reranking THEN 2 * req.n_results
                                ELSE req.n_results)
        /\ Len(search_results) <= calls.search_n
        /\ Len(ranked_results) <= req.n_results
        /\ pc \in {"RERANKED", "CONTEXT_BUILT", "GENERATED"} =>
              /\ Len(ranked_results) = Min(req.n_results, Len(search_results))
              /\ req.use_reranking =>
                    {r.chunk : r \in Range(ranked_results)}
                        \subseteq {r.chunk : r \in Range(search_results)}
              /\ ~req.use_reranking => ranked_results = search_results
        /\ (Returned /\ "search_results" \in DOMAIN result) =>
              result.search_results <= req.n_results
        /\ (Returned /\ "used_reranking" \in DOMAIN result) =>
              result.used_reranking = req.use_reranking
        /\ (Returned /\ outcomes.vector = "hits" /\ ~HasError) =>
              /\ "used_reranking" \in DOMAIN result
              /\ result.search_results = Len(ranked_results)

\* four candidates retrieved for a request of two, two of them kept
C13_Witness ==
    /\ Returned
    /\ OnCorpusPath
    /\ req.use_reranking
    /\ req.n_results = 2
    /\ calls.search_n = 4
    /\ Len(search_results) = 4
    /\ ~HasError
    /\ result.search_results = 2
    /\ result.used_reranking

\* C14 as claimed: on the web path, whenever the web search found something,
\* the response carries exactly min(3, number of web results) sources, in the
\* rank order of the web results.
C14_WebSourcesAlwaysMin3 ==
    (Returned /\ req.use_web_search /\ Len(search_results) >= 1) =>
        /\ "sources" \in DOMAIN result
        /\ Len(result.sources) = Min(3, Len(search_results))
        /\ \A k \in DOMAIN result.sources :
              /\ result.sources[k].source_index = k
              /\ result.sources[k].title = search_results[k].title
              /\ search_results[k].rank = k

\* C14 as amended: on the web path the response never carries more than 3
\* sources, whatever n_results is; it carries exactly min(3, number of web
\* results) sources, in rank order, when chat returns without error, and
\* none when an exception of the conversation memory made it return an error
\* response.
C14_WebSourcesMin3UnlessError ==
    (Returned /\ req.use_web_search /\ Len(search_results) >= 1) =>
        /\ ~HasError =>
              /\ Len(result.sources) = Min(3, Len(search_results))
              /\ result.search_results = Len(search_results)
              /\ \A k \in DOMAIN result.sources :
                    /\ result.sources[k].source_index = k
                    /\ result.sources[k].title = search_results[k].title
                    /\ search_results[k].rank = k
        /\ HasError =>
              /\ outcomes.history = "raise" \/ outcomes.store = "raise"
              /\ "sources" \in DOMAIN result => result.sources = <<>>

\* four web results for a request of four, three sources
C14_Witness ==
    /\ Returned
    /\ req.use_web_search
    /\ req.n_results = 4
    /\ Len(search_results) = 4
    /\ ~HasError
    /\ Len(result.sources) = 3

\* ============================================ claims: conversation memory
\* the turns stored for a thread: those in memory, else those in its file
StoredMessages(conv, files, t) ==
    IF t \in DOMAIN conv THEN conv[t].messages
    ELSE IF t \in DOMAIN files THEN files[t].messages
    ELSE <<>>

\* the two turns of the request in flight: the query, then the answer
TurnsOfRequest ==
    << Message("human", [req |-> nreq, text |-> "query"]),
       Message("ai", [req |-> nreq, text |-> "response"]) >>

\* C15: a request that completes generation with a thread id appends to its
\* thread exactly two turns, the query and then the answer, creating the
\* thread when it is missing; every other step of chat, and this step for
\* every other thread, leaves the stored turns as they are.
C15_MemoryAppendOnly ==
    [][\A t \in Threads :
          LET before == StoredMessages(conversations, disk, t)
              after == StoredMessages(conversations', disk', t)
          IN  IF pc = "GENERATED" /\ req.conversation_id = t
              THEN /\ after = before \o TurnsOfRequest
                   /\ t \in DOMAIN conversations'
              ELSE after = before]_vars

InRetrievalOrGeneration == pc \in {"DISPATCHED_db", "PROMPTED"}

\* C17: while one chat request is in the vector search or in the model
\* call, another submitted chat request can start and a weight update can
\* run, so two requests can be in flight at once.  (The code runs both
\* calls synchronously on the event loop: nothing else can start.)
C17_OtherRequestsProgress ==
    (InRetrievalOrGeneration /\ waiting # <<>>) =>
        /\ ENABLED Start
        /\ ENABLED (\E m \in WeightUpdates : update_reranker_weights(m))

\* the vector search of the request in hand raised
RetrievalFailed == pc \in {"RETURNED", "RAISED"} /\ outcomes.vector = "raise"

\* C18: when the vector search raises on the corpus path, chat returns a
\* value (it does not raise) that carries the query, the error text and the
\* elapsed time; the search was attempted exactly once and the generative
\* model was not invoked for the request.
C18_RetrievalFailureIsErrorResponse ==
    RetrievalFailed =>
        /\ Returned
        /\ HasError
        /\ result.query = req.query.id
        /\ result.response = ErrorText(Exceptions.search)
        /\ result.error = Exceptions.search.name
        /\ "processing_time" \in DOMAIN result
        /\ calls.vector = 1
        /\ calls.llm = 0
        /\ outcomes.llm = "none"

C18_Witness ==
    /\ Returned
    /\ outcomes.vector = "raise"
    /\ req.use_database /\ ~req.use_web_search
    /\ HasError

\* all chunks of one document agree on total_chunks, and every chunk_index
\* lies in [0, total_chunks)
IndexConsistent ==
    \A c, d \in index :
        /\ c.metadata.chunk_index \in 0..(c.metadata.total_chunks - 1)
        /\ c.metadata.doc_id = d.metadata.doc_id =>
              c.metadata.total_chunks = d.metadata.total_chunks

\* vectorize_file has just indexed call.filename
Vectorized ==
    /\ call.op = "vectorize_file"
    /\ ret.returned
    /\ ret.value.status = "success"

\* C19: after vectorize_file completes for a document, the index holds
\* exactly the chunks of the new content and none of an earlier version, so
\* in every reachable state the chunks of one doc_id agree on total_chunks
\* and each chunk_index lies in [0, total_chunks).
C19_ReindexReplacesWholesale ==
    /\ Vectorized =>
          LET doc_id == generate_doc_id(call.filename)
              documents == split_text(call.content,
                                      DocMetadata(call.filename, call.content))
          IN  {[page_content |-> c.page_content, metadata |-> c.metadata] :
                   c \in ChunksOf(index, doc_id)} = Range(documents)
    /\ IndexConsistent

\* C20 as stated: split_text on a non-empty text shorter than chunk_size
\* gives exactly one chunk with chunk_index 0 and total_chunks 1, on the
\* empty text it gives no chunk, and vectorize_file answers an empty file
\* with status "skipped".
C20_ShortTextOneChunk ==
    /\ (call.op = "split_text" /\ ret.returned) =>
          /\ call.text.size = 0 => ret.value = <<>>
          /\ (0 < call.text.size /\ call.text.size < ChunkSize) =>
                /\ Len(ret.value) = 1
                /\ ret.value[1].metadata.chunk_index = 0
                /\ ret.value[1].metadata.total_chunks = 1
    /\ (call.op = "vectorize_file" /\ call.content.size = 0) =>
          \/ ~ret.returned
          \/ ret.value.status = "skipped"

\* C20, amended: the one chunk is promised for a short text that holds a
\* character other than whitespace; a text of whitespace only is treated
\* as the empty text is, with no chunk and status "skipped".
C20_ShortNonBlankTextOneChunk ==
    /\ (call.op = "split_text" /\ ret.returned) =>
          /\ call.text.blank => ret.value = <<>>
          /\ (~call.text.blank /\ call.text.size < ChunkSize) =>
                /\ Len(ret.value) = 1
                /\ ret.value[1].metadata.chunk_index = 0
                /\ ret.value[1].metadata.total_chunks = 1
    /\ (call.op = "vectorize_file" /\ call.content.blank) =>
          \/ ~ret.returned
          \/ ret.value.status = "skipped"

C20_Witness ==
    /\ call.op = "split_text"
    /\ ret.returned
    /\ ~call.text.blank
    /\ call.text.size < ChunkSize
    /\ Len(ret.value) = 1

\* ------------------------------------------- weight updates and rerank
\* the maps update_reranker_weights is called with: all five keys, some of
\* them, keys the reranker does not know (and, in NextWeights, no key)
WeightMaps ==
    { [similarity |-> 10, keyword_match |-> 0, recency |-> 0,
       chunk_position |-> 0, doc_frequency |-> 0],
      [keyword_match |-> 5],
      [similarity |-> 10],
      [recency |-> 2, bogus |-> 8],
      [bogus |-> 10] }
EmptyMap == [k \in {} |-> 0]

\* the result lists rerank is called with here
RerankInputs ==
    {l \in ResultLists : Len(l) <= 2 /\ \A i \in DOMAIN l : l[i].similarity = 9}

\* reranker.rerank(query, results) is called with the weights of the moment
RerankWith(query, results) ==
    /\ pc = "idle"
    /\ call' = [op |-> "rerank", query |-> query, results |-> results]
    /\ ret' = [returned |-> TRUE, value |-> rerank(weights, query, results)]
    /\ UNCHANGED <<chatVars, conversations, disk, weights, llm, nreq, waiting,
                   index>>

NextWeights ==
    \/ \E m \in WeightMaps : update_reranker_weights(m)
    \/ update_reranker_weights(EmptyMap)
    \/ \E query \in Queries, results \in RerankInputs : RerankWith(query, results)

SpecWeights == Init /\ [][NextWeights]_vars

\* sum(request.weights.values()), in tenths
RECURSIVE SumValues(_)
SumValues(m) ==
    IF DOMAIN m = {} THEN 0
    ELSE LET key == CHOOSE k \in DOMAIN m : TRUE
         IN  m[key] + SumValues([k \in DOMAIN m \ {key} |-> m[k]])

\* POST /api/aichat/reranker/weights: a map whose values do not sum to 1.0
\* within 0.01 is refused with HTTP 400, any other is handed to
\* update_reranker_weights
post_reranker_weights(m) ==
    /\ pc = "idle"
    /\ call' = [op |-> "post_reranker_weights", weights |-> m]
    /\ IF SumValues(m) # 10
       THEN /\ ret' = [returned |-> FALSE, raised |-> "HTTP400"]
            /\ UNCHANGED weights
       ELSE /\ weights' = DictUpdate(weights, m)
            /\ ret' = [returned |-> TRUE,
                       value |-> [success |-> TRUE, weights |-> m]]
    /\ UNCHANGED <<chatVars, conversations, disk, llm, nreq, waiting, index>>

NextEndpoint ==
    \/ \E m \in WeightMaps : post_reranker_weights(m)
    \/ post_reranker_weights(EmptyMap)
    \/ \E query \in Queries, results \in RerankInputs : RerankWith(query, results)

SpecEndpoint == Init /\ [][NextEndpoint]_vars

\* the sum of the five weights used in scoring, in tenths
WeightSum(w) ==
    w["similarity"] + w["keyword_match"] + w["recency"] + w["chunk_position"]
    + w["doc_frequency"]

\* C21: update_reranker_weights(m) is a merge without renormalization: every
\* key of m gets the value given, every other weight stays as it was, nothing
\* is rescaled; a rerank that starts after the update scores with the new map.
C21_UpdateIsMerge ==
    /\ [][weights' # weights =>
             \E m \in WeightMaps :
                /\ DOMAIN weights' = DOMAIN weights \cup DOMAIN m
                /\ \A key \in DOMAIN m : weights'[key] = m[key]
                /\ \A key \in DOMAIN weights \ DOMAIN m :
                      weights'[key] = weights[key]]_vars
    /\ [][(call'.op = "rerank" /\ <<call, ret>>' # <<call, ret>>) =>
              ret'.value = rerank(weights, call'.query, call'.results)]_vars

\* a rerank has scored with updated weights that do not sum to 1
C21_Witness ==
    /\ call.op = "rerank"
    /\ ret.returned
    /\ call.results # <<>>
    /\ weights["keyword_match"] = 5
    /\ weights["similarity"] = 10
    /\ WeightSum(weights) # 10
    /\ ret.value = rerank(weights, call.query, call.results)

\* C22: each of the five sub-scores rerank attaches to a candidate lies in
\* [0,1] (similarity in [0,1], chunk_index in [0,total_chunks)); recency
\* stays in [0,1] for every parseable timestamp, also one later than now, and
\* is 0.5 for a missing or unparseable one.
C22_SubScoresInUnitInterval ==
    RerankReturned =>
        \A i \in DOMAIN ret.value :
            /\ \A key \in SignalKeys :
                  /\ ret.value[i].reranking_scores[key] >= 0
                  /\ ret.value[i].reranking_scores[key] <= ScoreUnit
            /\ ~Metadata(ret.value[i]).timestamp.parses =>
                  2 * ret.value[i].reranking_scores["recency"] = ScoreUnit

\* C23: calculate_keyword_score is min(1, (E * 1.0 + P * 0.5) / |queryTerms|),
\* E the number of query terms that are also candidate terms, P the number
\* of query terms that are a substring of, or contain, at least one candidate
\* term (a query term counts once in P); it is 0 for a query without terms.
C23_KeywordScoreCountsQueryTerms ==
    RerankReturned =>
        \A i \in DOMAIN ret.value :
            LET query_terms == Terms(call.query.words)
                text_terms == Terms(Metadata(ret.value[i]).words)
                E == Cardinality(query_terms \cap text_terms)
                P == Cardinality({q \in query_terms :
                                     \E t \in text_terms :
                                        IsSubstr(q, t) \/ IsSubstr(t, q)})
            IN  ret.value[i].reranking_scores["keyword_match"] =
                    IF query_terms = {} THEN 0
                    ELSE Min(ScoreUnit, ((2 * E + P) * ScoreUnit)
                                            \div (2 * Cardinality(query_terms)))

\* ------------------------------------- chat on a thread with a history
\* the thread "t1" after k earlier requests with that thread id: their
\* queries and answers, numbered 1-k .. 0
PriorThread(k) ==
    [id |-> "t1", title |-> "q1", message_count |-> 2 * k,
     messages |->
        [i \in 1..(2 * k) |->
            IF i % 2 = 1
            THEN Message("human", [req |-> (i + 1) \div 2 - k, text |-> "query"])
            ELSE Message("ai", [req |-> i \div 2 - k, text |-> "response"])]]

\* the service between two requests: no thread yet, or "t1" stored by
\* earlier requests, held in memory too or (after a restart) in its file only
InitHistory ==
    /\ pc = "idle"
    /\ req = Unbound
    /\ search_results = <<>>
    /\ ranked_results = <<>>
    /\ context = <<>>
    /\ sources = <<>>
    /\ conversation_context = <<>>
    /\ response = Unbound
    /\ result = Unbound
    /\ calls = NoCalls
    /\ outcomes = NoOutcomes
    /\ elapsed = 0
    /\ \E k \in 0..MaxPrior :
          /\ disk = IF k = 0 THEN <<>> ELSE [t \in {"t1"} |-> PriorThread(k)]
          /\ conversations \in {disk, <<>>}
    /\ nreq = 0
    /\ waiting = <<>>
    /\ index = {}
    /\ weights = DefaultWeights
    /\ llm \in BOOLEAN
    /\ call = NoCall
    /\ ret = NoReturn

SpecHistory == InitHistory /\ [][NextMemory]_vars

\* a direct call of ConversationMemoryService.create_thread(thread_id): a
\* thread that is not in self.conversations is built empty and written to its
\* file by _save_thread, which answers a failing write with False; the value
\* returned is get_thread_info(thread_id)
CreateThreadCall(thread_id, save) ==
    /\ pc = "idle"
    /\ call' = [op |-> "create_thread", thread_id |-> thread_id]
    /\ conversations' = create_thread(conversations, thread_id, "q1")
    /\ disk' = IF thread_id \in DOMAIN conversations \/ save = "fails" THEN disk
               ELSE [t \in DOMAIN disk \cup {thread_id} |->
                        IF t = thread_id THEN conversations'[t] ELSE disk[t]]
    /\ ret' = [returned |-> TRUE,
               value |-> [id |-> conversations'[thread_id].id,
                          title |-> conversations'[thread_id].title,
                          message_count |->
                              conversations'[thread_id].message_count]]
    /\ UNCHANGED <<chatVars, weights, llm, nreq, waiting, index>>

NextThreads ==
    \/ \E thread_id \in Threads, save \in {"ok", "fails"} :
          CreateThreadCall(thread_id, save)
    \/ Restart

SpecThreads == InitHistory /\ [][NextThreads]_vars

\* python's  s[-n:]
LastOf(s, n) == SubSeq(s, Max(1, Len(s) - n + 1), Len(s))

\* C24: the history given to the model is read before the request's turns
\* are appended: with a thread id whose thread exists the prompt holds at
\* most the last 6 stored turns of the thread as they were before the
\* request, never the request's own query or answer; without a thread id, or
\* when the thread does not exist yet, it holds no history.
C24_HistoryReadBeforeAppend ==
    /\ (llm /\ pc \in {"PROMPTED", "GENERATED"}) =>
          LET tid == req.conversation_id
              stored == StoredMessages(conversations, disk, tid)
          IN  /\ tid = None => conversation_context = <<>>
              /\ (tid # None /\ tid \notin DOMAIN conversations \cup DOMAIN disk)
                    => conversation_context = <<>>
              /\ tid # None =>
                    \E n \in 0..HistoryMessages :
                       conversation_context = LastOf(stored, n)
              /\ (tid # None /\ outcomes.history \in {"cached", "loaded"}) =>
                    conversation_context = LastOf(stored, HistoryMessages)
    /\ InFlight =>
          /\ Len(conversation_context) <= HistoryMessages
          /\ \A i \in DOMAIN conversation_context :
                conversation_context[i].content.req < nreq

\* the prompt of a request on a thread of eight stored turns holds the last
\* six of them
C24_Witness ==
    /\ llm
    /\ pc = "PROMPTED"
    /\ req.conversation_id = "t1"
    /\ Len(StoredMessages(conversations, disk, "t1")) > HistoryMessages
    /\ Len(conversation_context) = HistoryMessages
    /\ conversation_context[1].content.req = -2

\* C25: RAGService.build_context never answers a non-empty result list with
\* an empty context: a first candidate that alone exceeds max_context_length
\* is still included.
C25_RagContextNeverEmpty ==
    (call.op = "rag_build_context" /\ ret.returned /\ call.results # <<>>) =>
        /\ ret.value # <<>>
        /\ ret.value[1].chunk = call.results[1].chunk

\* C26: deleting a document destroys all of its chunks: once delete_document
\* has returned "success" no chunk with the document's doc_id is left in the
\* index, whatever was indexed for it before (so that a second delete answers
\* "not_found"), and a delete takes nothing from any other document.
C26_DeleteDestroysAllChunks ==
    /\ []((call.op = "delete_document" /\ ret.returned
           /\ ret.value.status = "success") =>
             ChunksOf(index, generate_doc_id(call.filename)) = {})
    /\ [][(call'.op = "delete_document" /\ index' # index) =>
             /\ index' \subseteq index
             /\ \A c \in index \ index' :
                   c.metadata.doc_id = generate_doc_id(call'.filename)]_vars

\* C27: the weight-update endpoint keeps the reranker normalized: after every
\* update it accepts, the five weights used in scoring sum to 1.0, and an
\* update it refuses with HTTP 400 leaves the weights as they were.
C27_EndpointKeepsWeightsNormalized ==
    /\ [](WeightSum(weights) = 10)
    /\ [][(call'.op = "post_reranker_weights" /\ ~ret'.returned) =>
             weights' = weights]_vars

\* C28: after any sequence of update_reranker_weights calls (some of the
\* signal keys, unknown keys, no key) the weight map still holds all five
\* signal keys, so that rerank finds every weight it reads; a key other than
\* these five has no influence on the scores rerank computes.
C28_SignalKeysAlwaysPresent ==
    /\ SignalKeys \subseteq DOMAIN weights
    /\ \A query \in Queries :
          \A results \in {l \in RerankInputs : Len(l) = 2 /\ l[1].chunk = "c1"} :
             rerank(weights, query, results) =
                rerank([key \in SignalKeys |-> weights[key]], query, results)

\* rerank has scored with a map that holds an unknown key
C28_Witness ==
    /\ "bogus" \in DOMAIN weights
    /\ weights["recency"] = 2
    /\ call.op = "rerank"
    /\ ret.returned
    /\ Len(call.results) = 2
    /\ ret.value = rerank(weights, call.query, call.results)

\* chat has returned without entering generate_response
ReturnedWithoutGenerating ==
    /\ Returned
    /\ outcomes.llm = "none"
    /\ outcomes.history = "none"

\* C29: a chat that returns without generating (no source selected, empty
\* corpus or web retrieval, retrieval error) leaves Conversation Memory as it
\* was, with no thread created and no turn appended for the request's thread
\* id, and never invokes the generative model.
C29_NoGenerationLeavesMemory ==
    /\ [](ReturnedWithoutGenerating =>
             /\ calls.llm = 0
             /\ calls.memory = 0
             /\ \A t \in Threads :
                   LET stored == StoredMessages(conversations, disk, t)
                   IN  /\ \A i \in DOMAIN stored : stored[i].content.req < nreq
                       /\ t \in DOMAIN conversations \cup DOMAIN disk =>
                             stored # <<>>)
    /\ [][pc \notin {"CONTEXT_BUILT", "GENERATED"} =>
             UNCHANGED <<conversations, disk>>]_vars

\* a request on a thread stored by an earlier request ended in a retrieval
\* error
C29_Witness ==
    /\ ReturnedWithoutGenerating
    /\ outcomes.vector = "raise"
    /\ req.conversation_id = "t1"
    /\ Len(StoredMessages(conversations, disk, "t1")) = 2

\* C30: create_thread never discards stored history: called with the id of a
\* thread that exists, held in memory or only in its file (as after a
\* restart), it returns the info of that thread and leaves its stored
\* messages and its message_count as they were.
C30_CreateThreadKeepsHistory ==
    [][\A t \in Threads :
          (/\ call'.op = "create_thread"
           /\ call'.thread_id = t
           /\ conversations' # <<>>
           /\ t \in DOMAIN conversations \cup DOMAIN disk) =>
             LET before == StoredMessages(conversations, disk, t)
             IN  /\ StoredMessages(conversations', disk', t) = before
                 /\ ret'.value.id = t
                 /\ ret'.value.message_count = Len(before)
                 /\ t \in DOMAIN disk => disk'[t] = disk[t]]_vars

=============================================================================
